---- MODULE Spec2Model ----
(***************************************************************************)
(* A model of scripts/linear_fetch.py: the command line tool that keeps a  *)
(* small JSON config (init) and fetches issue / project / team data or     *)
(* runs a custom query with one GraphQL POST.                              *)
(*                                                                         *)
(* Python strings the code computes on (tokens, scheme hints, issue        *)
(* identifiers) are sequences of one-character strings; strings the code   *)
(* only formats into messages are TLA+ strings.  None is the value NoneV,  *)
(* a sequence no Python string is modelled by.                             *)
(***************************************************************************)
EXTENDS Integers, Sequences, FiniteSets, TLC

NoneV == <<"None">>

\* ---------------------------------------------------------------- bounds
\* Most entries of a response's top-level errors list.
MaxErrors == 2
\* Most nodes of a response's data.issues.nodes list.
MaxNodes == 2

\* ------------------------------------------------------- character level
UpperChars == <<"A","B","C","D","E","F","G","H","I","J","K","L","M",
                "N","O","P","Q","R","S","T","U","V","W","X","Y","Z">>
LowerChars == <<"a","b","c","d","e","f","g","h","i","j","k","l","m",
                "n","o","p","q","r","s","t","u","v","w","x","y","z">>
DigitChars == <<"0","1","2","3","4","5","6","7","8","9">>
SpaceChars == {" ", "\t", "\n", "\r"}

Range(s) == {s[i] : i \in 1..Len(s)}
IndexOf(s, c) == CHOOSE i \in 1..Len(s) : s[i] = c

IsUpper(c) == c \in Range(UpperChars)
IsLower(c) == c \in Range(LowerChars)
IsAlpha(c) == IsUpper(c) \/ IsLower(c)
IsDigit(c) == c \in Range(DigitChars)

\* str.lower() and str.upper(), one character at a time
LowerChar(c) == IF IsUpper(c) THEN LowerChars[IndexOf(UpperChars, c)] ELSE c
UpperChar(c) == IF IsLower(c) THEN UpperChars[IndexOf(LowerChars, c)] ELSE c
Lower(s) == [i \in 1..Len(s) |-> LowerChar(s[i])]
Upper(s) == [i \in 1..Len(s) |-> UpperChar(s[i])]

\* str.strip(): drop leading and trailing whitespace
RECURSIVE LStrip(_)
LStrip(s) == IF s # <<>> /\ s[1] \in SpaceChars THEN LStrip(Tail(s)) ELSE s
RECURSIVE RStrip(_)
RStrip(s) ==
    IF s # <<>> /\ s[Len(s)] \in SpaceChars
    THEN RStrip(SubSeq(s, 1, Len(s) - 1))
    ELSE s
Strip(s) == RStrip(LStrip(s))

\* str.startswith(prefix)
StartsWith(s, p) == Len(s) >= Len(p) /\ SubSeq(s, 1, Len(p)) = p

\* the text of a character sequence, for messages
RECURSIVE Text(_)
Text(s) == IF s = <<>> THEN "" ELSE s[1] \o Text(Tail(s))

\* Python truthiness of an Optional[str]
Truthy(v) == v # NoneV /\ v # <<>>

\* a or b
OrElse(a, b) == IF Truthy(a) THEN a ELSE b

\* ------------------------------------------------------ format_auth_header
S_bearer == <<"b","e","a","r","e","r">>
S_oauth  == <<"o","a","u","t","h">>
S_raw    == <<"r","a","w">>
S_token  == <<"t","o","k","e","n">>
BearerSp == <<"b","e","a","r","e","r"," ">>
BearerPrefix == <<"B","e","a","r","e","r"," ">>

format_auth_header_nostrip(token, scheme) ==
    IF Truthy(scheme) /\ Lower(scheme) \in {S_bearer, S_oauth}
       /\ ~StartsWith(Lower(token), BearerSp)
    THEN BearerPrefix \o token
    ELSE token

format_auth_header(token, scheme) ==
    LET scheme_value == Lower(Strip(scheme)) IN
    IF Truthy(scheme) /\ scheme_value \in {S_bearer, S_oauth}
    THEN IF StartsWith(Lower(token), BearerSp)
         THEN token
         ELSE BearerPrefix \o token
    ELSE IF Truthy(scheme) /\ scheme_value \in {S_raw, S_token}
    THEN token
    ELSE IF StartsWith(Lower(token), BearerSp)
    THEN token
    ELSE IF " " \in Range(token)
    THEN token
    ELSE token

\* -------------------------------------------------- parse_issue_identifier
RECURSIVE IntOf(_)
IntOf(ds) ==
    IF ds = <<>> THEN 0
    ELSE 10 * IntOf(SubSeq(ds, 1, Len(ds) - 1)) + (IndexOf(DigitChars, ds[Len(ds)]) - 1)

\* ([A-Za-z][A-Za-z0-9_]*)
IsTeamKey(s) ==
    /\ s # <<>>
    /\ IsAlpha(s[1])
    /\ \A i \in 2..Len(s) : IsAlpha(s[i]) \/ IsDigit(s[i]) \/ s[i] = "_"

\* (\d+)
IsDigitRun(s) == s # <<>> /\ \A i \in 1..Len(s) : IsDigit(s[i])

\* the position of the hyphen of ^([A-Za-z][A-Za-z0-9_]*)-(\d+)$ in value, 0 if
\* value does not match
HyphenOf(value) ==
    LET hs == {i \in 1..Len(value) :
                 /\ value[i] = "-"
                 /\ IsTeamKey(SubSeq(value, 1, i - 1))
                 /\ IsDigitRun(SubSeq(value, i + 1, Len(value)))}
    IN IF hs = {} THEN 0 ELSE CHOOSE i \in hs : TRUE

InvalidIdentifierMsg(identifier) ==
    "Invalid issue identifier '" \o Text(identifier) \o "'. Expected format TEAM-123."

parse_issue_identifier(identifier) ==
    LET value == Strip(identifier)
        h == HyphenOf(value)
    IN IF h = 0
       THEN [ok |-> FALSE, error |-> InvalidIdentifierMsg(identifier)]
       ELSE [ok |-> TRUE,
             team_key |-> Upper(SubSeq(value, 1, h - 1)),
             number |-> IntOf(SubSeq(value, h + 1, Len(value)))]

\* ------------------------------------------------------------ config store
ConfigKeys == {"workspace", "teamId", "teamKey", "projectId", "projectName",
               "boardUrl", "envFile", "authMode", "authScheme", "mcpServer"}

EmptyMap == <<>>

\* dict.get(key)
Get(m, k) == IF k \in DOMAIN m THEN m[k] ELSE NoneV

\* dict.update(u)
Update(m, u) ==
    [k \in (DOMAIN m) \cup (DOMAIN u) |-> IF k \in DOMAIN u THEN u[k] ELSE m[k]]

\* The config file on disk: missing, not JSON, or a JSON object.
MissingFile == [state |-> "missing", obj |-> EmptyMap]
MalformedFile == [state |-> "malformed", obj |-> EmptyMap]
ObjectFile(m) == [state |-> "object", obj |-> m]

load_config(file) == IF file.state = "object" THEN file.obj ELSE EmptyMap

\* write_config: json.dumps of the mapping, then a newline; json.loads reads the
\* same mapping back
write_config(config) == ObjectFile(config)

\* the updates mapping of the init command
InitUpdates(a, config) ==
    [k \in ConfigKeys |->
        CASE k = "workspace"   -> a.workspace
          [] k = "teamId"      -> a.team_id
          [] k = "teamKey"     -> a.team_key
          [] k = "projectId"   -> a.project_id
          [] k = "projectName" -> a.project_name
          [] k = "boardUrl"    -> a.board_url
          [] k = "envFile"     -> OrElse(a.env, Get(config, "envFile"))
          [] k = "authMode"    -> a.auth_mode
          [] k = "authScheme"  -> a.auth_scheme
          [] k = "mcpServer"   -> a.mcp_server]

CleanUpdates_keepall(updates) == updates

\* {k: v for k, v in updates.items() if v}
CleanUpdates(updates) ==
    [k \in {j \in DOMAIN updates : Truthy(updates[j])} |-> updates[k]]

\* ------------------------------------------------------ credential resolver
TokenKey == "LINEAR_API_TOKEN"

P_local == <<".","e","n","v",".","l","o","c","a","l">>
P_env   == <<".","e","n","v">>

NoFile == [exists |-> FALSE, data |-> EmptyMap]
EnvFile(m) == [exists |-> TRUE, data |-> m]

\* Path(p).exists() in the file system fs, a function from paths to files
Exists(fs, p) == p \in DOMAIN fs /\ fs[p].exists

resolve_env_path(arg_env, config, fs) ==
    IF Truthy(arg_env) THEN arg_env
    ELSE IF Truthy(Get(config, "envFile")) THEN Get(config, "envFile")
    ELSE IF Exists(fs, P_local) THEN P_local
    ELSE IF Exists(fs, P_env) THEN P_env
    ELSE NoneV

\* load_env_file: the mapping the file's KEY=VALUE lines parse to, empty when
\* the file does not exist
load_env_file(path, fs) == IF Exists(fs, path) THEN fs[path].data ELSE EmptyMap

resolve_token_envfirst(arg_token, environ, env_data) ==
    IF Truthy(environ) THEN environ
    ELSE IF Truthy(arg_token) THEN arg_token
    ELSE Get(env_data, TokenKey)

resolve_token(arg_token, environ, env_data) ==
    IF Truthy(arg_token) THEN arg_token
    ELSE IF Truthy(environ) THEN environ
    ELSE Get(env_data, TokenKey)

AuthModeOf_ignore(config) == <<"t","o","k","e","n">>

\* config.get("authMode") or "token"
AuthModeOf(config) == OrElse(Get(config, "authMode"), <<"t","o","k","e","n">>)

S_mcp == <<"m","c","p">>

\* -------------------------------------------------------------- messages
McpMsg == "Auth mode is set to mcp. Use MCP connectivity for this workspace."
NoTokenMsg == "LINEAR_API_TOKEN not found in env or args"
IssueUsageMsg == "issue requires --id or --identifier"
ProjectUsageMsg == "project requires --id or config projectId"
TeamUsageMsg == "team requires --id or config teamId"
NotFoundMsg(identifier) == "No issue found for identifier " \o Text(identifier)
QueryMissingMsg(path) == "Query file not found: " \o Text(path)
HttpErrorMsg(code, body) == "Request failed: HTTP " \o code \o " " \o body

\* ", ".join / "; ".join
RECURSIVE Join(_, _)
Join(sep, items) ==
    IF items = <<>> THEN ""
    ELSE IF Len(items) = 1 THEN items[1]
    ELSE items[1] \o sep \o Join(sep, Tail(items))

NoField == "<absent>"

\* node.get("identifier", "?") / error.get("message", "Unknown error")
FieldOr(v, default) == IF v = NoField THEN default ELSE v

AmbiguousMsg(nodes) ==
    "Multiple issues matched identifier. Use --id instead. " \o "Matches: "
      \o Join(", ", [i \in 1..Len(nodes) |-> FieldOr(nodes[i], "?")])

GraphQLErrorMsg(errors) ==
    "GraphQL error: "
      \o Join("; ", [i \in 1..Len(errors) |-> FieldOr(errors[i], "Unknown error")])

ErrorLine_bare(msg) == msg

\* print(f"Error: {exc}", file=sys.stderr)
ErrorLine(msg) == "Error: " \o msg

\* argparse's parser.error: the usage line, then "<prog>: error: <message>"
UsageLine(msg) == "usage: linear_fetch.py ...\n" \o "linear_fetch.py: error: " \o msg \o "\n"

\* ------------------------------------------------------- request / response
QUERY_ISSUE_BY_ID == "QUERY_ISSUE_BY_ID"
QUERY_ISSUE_BY_IDENTIFIER == "QUERY_ISSUE_BY_IDENTIFIER"
QUERY_PROJECT == "QUERY_PROJECT"
QUERY_TEAM == "QUERY_TEAM"

\* float(number): the same number for every integer below 2^53, which every
\* digit run of the model's identifiers is
FloatOf(n) == n

\* The decoded reply.  errors is the top-level error list (missing, null and []
\* are all falsy and are the empty sequence here); each entry is its message or
\* NoField.  data is "missing", "null", or an object whose issues member is
\* "missing" or an object whose nodes member is "missing" or a list of nodes,
\* each node being its identifier or NoField.
Response(errs, shape, nodelist) == [errors |-> errs, data |-> shape, nodes |-> nodelist]
NoResponse == Response(<<>>, "none", <<>>)

\* response.get("data", {}).get("issues", {}).get("nodes", [])
\* (None.get raises AttributeError)
NodesRaises(r) == r.data = "null"
NodesOf(r) == IF r.data = "nodes" THEN r.nodes ELSE <<>>
NullDataMsg == "'NoneType' object has no attribute 'get'"

HasErrors_never(r) == FALSE

\* raise_on_errors: errors = response.get("errors"); if not errors: return
HasErrors(r) == r.errors # <<>>

UrlopenCalls_retry(kind) == IF kind = "http" THEN 2 ELSE 1

\* post_graphql calls request.urlopen once, whatever comes back
UrlopenCalls(kind) == 1

\* json.dumps(data, indent=2)
Dumps(data) == [json |-> data, indent |-> 2]

\* the only JSON documents among the model's texts
J_empty == <<"{", "}">>
J_bad == <<"{">>
JsonOk(text) == text = J_empty
JsonErrorMsg == "Expecting property name enclosed in double quotes: line 1 column 2 (char 1)"
NoSuchFileMsg(path) == "[Errno 2] No such file or directory: '" \o Text(path) \o "'"

\* parse_variables: [ok, value] or [ok, error]
parse_variables(value, fs) ==
    LET Loads(text) == IF JsonOk(text)
                       THEN [ok |-> TRUE, value |-> EmptyMap]
                       ELSE [ok |-> FALSE, error |-> JsonErrorMsg]
    IN IF ~Truthy(value) THEN [ok |-> TRUE, value |-> EmptyMap]
       ELSE IF value[1] = "@"
       THEN IF Exists(fs, Tail(value))
            THEN Loads(fs[Tail(value)].data)
            ELSE [ok |-> FALSE, error |-> NoSuchFileMsg(Tail(value))]
       ELSE IF Exists(fs, value) THEN Loads(fs[value].data)
       ELSE Loads(value)

DefaultFirst == 50
DEFAULT_CONFIG == ".linear-task-planner.json"
SavedMsg == "Saved config to " \o DEFAULT_CONFIG
WriteFailedMsg == "[Errno 13] Permission denied: '" \o DEFAULT_CONFIG \o "'"

\* ------------------------------------------------------------------ state
VARIABLES
    configFile,   \* the config file on disk
    fs,           \* the other files of this run: env files, query and variable files
    environ,      \* os.environ.get("LINEAR_API_TOKEN") of this run
    args,         \* the parsed command line
    pc,           \* where main() is: idle, main, loaded, resolve, dispatch,
                  \* request, response, checked, exit
    config,       \* main's config
    env_data,     \* main's env_data
    token,        \* main's token
    query,        \* the query template sent
    variables,    \* the variables sent
    auth_scheme,  \* main's auth_scheme
    header,       \* the Authorization header of the request
    response,     \* the decoded response
    requests,     \* urlopen calls of this run
    envLoads,     \* load_env_file calls of this run
    tokenReads,   \* resolve_token calls of this run
    stdout,       \* what this run printed
    written,      \* the files this run wrote with write_output
    stderr,       \* what this run wrote to the error stream
    exitCode,     \* the exit status, -1 while running
    failure       \* how the run failed: none, exception or usage

vars == <<configFile, fs, environ, args, pc, config, env_data, token, query,
          variables, auth_scheme, header, response, requests, envLoads,
          tokenReads, stdout, written, stderr, exitCode, failure>>

NoFailure == [kind |-> "none", msg |-> ""]
NoArgs == [command |-> "none"]

\* the locals of a run that has not assigned them yet
FreshRun ==
    /\ config = EmptyMap
    /\ env_data = EmptyMap
    /\ token = NoneV
    /\ query = ""
    /\ variables = EmptyMap
    /\ auth_scheme = NoneV
    /\ header = NoneV
    /\ response = NoResponse
    /\ requests = 0
    /\ envLoads = 0
    /\ tokenReads = 0
    /\ stdout = <<>>
    /\ written = <<>>
    /\ stderr = ""
    /\ exitCode = -1
    /\ failure = NoFailure

\* a new process: the same locals, unassigned again
BeginRun ==
    /\ config' = EmptyMap
    /\ env_data' = EmptyMap
    /\ token' = NoneV
    /\ query' = ""
    /\ variables' = EmptyMap
    /\ auth_scheme' = NoneV
    /\ header' = NoneV
    /\ response' = NoResponse
    /\ requests' = 0
    /\ envLoads' = 0
    /\ tokenReads' = 0
    /\ stdout' = <<>>
    /\ written' = <<>>
    /\ stderr' = ""
    /\ exitCode' = -1
    /\ failure' = NoFailure

InitWith(files) ==
    /\ configFile \in files
    /\ fs = EmptyMap
    /\ environ = NoneV
    /\ args = NoArgs
    /\ pc = "idle"
    /\ FreshRun

\* -------------------------------------------------------- leaving main()
\* an exception reaches the handler of the __main__ block
Fail(msg) ==
    /\ pc' = "exit"
    /\ failure' = [kind |-> "exception", msg |-> msg]
    /\ stderr' = ErrorLine(msg)
    /\ exitCode' = 1

\* parser.error raises SystemExit(2), which is no Exception
UsageError(msg) ==
    /\ pc' = "exit"
    /\ failure' = [kind |-> "usage", msg |-> msg]
    /\ stderr' = UsageLine(msg)
    /\ exitCode' = 2

Return ==
    /\ pc' = "exit"
    /\ exitCode' = 0
    /\ UNCHANGED <<failure, stderr>>

Goto(label) ==
    /\ pc' = label
    /\ UNCHANGED <<failure, stderr, exitCode>>

\* ---------------------------------------------------------------- main()
\* A process starts: argparse has parsed the command line (line 388).
Start(Inputs) ==
    /\ pc = "idle"
    /\ \E in \in Inputs :
          /\ args' = in.args
          /\ environ' = in.environ
          /\ fs' = in.fs
    /\ pc' = "main"
    /\ UNCHANGED <<configFile, config, env_data, token, query, variables,
                   auth_scheme, header, response, requests, envLoads, tokenReads,
                   stdout, written, stderr, exitCode, failure>>

\* The process is gone (sys.exit, or falling off the __main__ block): only the
\* config file is left for the next one.
ProcessEnds ==
    /\ pc = "exit"
    /\ pc' = "idle"
    /\ args' = NoArgs
    /\ environ' = NoneV
    /\ fs' = EmptyMap
    /\ BeginRun
    /\ UNCHANGED configFile

\* lines 390-391
LoadConfig ==
    /\ pc = "main"
    /\ config' = load_config(configFile)
    /\ Goto("loaded")
    /\ UNCHANGED <<configFile, fs, environ, args, env_data, token, query, variables,
                   auth_scheme, header, response, requests, envLoads, tokenReads,
                   stdout, written>>

\* lines 393-410: the init command; write_config may fail with an OSError
InitCommand ==
    /\ pc = "loaded"
    /\ args.command = "init"
    /\ config' = Update(config, CleanUpdates(InitUpdates(args, config)))
    /\ \E writable \in BOOLEAN :
          IF writable
          THEN /\ configFile' = write_config(config')
               /\ stdout' = Append(stdout, [text |-> SavedMsg])
               /\ Return
          ELSE /\ Fail(WriteFailedMsg)
               /\ UNCHANGED <<configFile, stdout>>
    /\ UNCHANGED <<fs, environ, args, env_data, token, query, variables, auth_scheme,
                   header, response, requests, envLoads, tokenReads, written>>

\* lines 412-414
CheckAuthMode ==
    /\ pc = "loaded"
    /\ args.command # "init"
    /\ IF AuthModeOf(config) = S_mcp THEN Fail(McpMsg) ELSE Goto("resolve")
    /\ UNCHANGED <<configFile, fs, environ, args, config, env_data, token, query,
                   variables, auth_scheme, header, response, requests, envLoads,
                   tokenReads, stdout, written>>

\* lines 416-425
ResolveCredential ==
    /\ pc = "resolve"
    /\ LET env_path == resolve_env_path(args.env, config, fs) IN
          /\ env_data' = IF env_path # NoneV THEN load_env_file(env_path, fs) ELSE EmptyMap
          /\ envLoads' = IF env_path # NoneV THEN envLoads + 1 ELSE envLoads
    /\ token' = resolve_token(args.token, environ, env_data')
    /\ tokenReads' = tokenReads + 1
    /\ IF Truthy(token') THEN Goto("dispatch") ELSE Fail(NoTokenMsg)
    /\ UNCHANGED <<configFile, fs, environ, args, config, query, variables,
                   auth_scheme, header, response, requests, stdout, written>>

\* line 441 (462, 473, 485)
SchemeHint == OrElse(args.auth_scheme, Get(config, "authScheme"))

\* lines 427-441
BuildIssue ==
    /\ pc = "dispatch"
    /\ args.command = "issue"
    /\ IF ~Truthy(args.id) /\ ~Truthy(args.identifier)
       THEN /\ UsageError(IssueUsageMsg)
            /\ UNCHANGED <<query, variables, auth_scheme>>
       ELSE IF Truthy(args.id)
       THEN /\ query' = QUERY_ISSUE_BY_ID
            /\ variables' = [issueId |-> args.id, includeDetails |-> args.details]
            /\ auth_scheme' = SchemeHint
            /\ Goto("request")
       ELSE LET parsed == parse_issue_identifier(args.identifier) IN
            IF parsed.ok
            THEN /\ query' = QUERY_ISSUE_BY_IDENTIFIER
                 /\ variables' = [teamKey |-> parsed.team_key,
                                  number |-> FloatOf(parsed.number),
                                  includeDetails |-> args.details]
                 /\ auth_scheme' = SchemeHint
                 /\ Goto("request")
            ELSE /\ Fail(parsed.error)
                 /\ UNCHANGED <<query, variables, auth_scheme>>
    /\ UNCHANGED <<configFile, fs, environ, args, config, env_data, token, header,
                   response, requests, envLoads, tokenReads, stdout, written>>

\* lines 457-462
BuildProject ==
    /\ pc = "dispatch"
    /\ args.command = "project"
    /\ LET project_id == OrElse(args.id, Get(config, "projectId")) IN
       IF ~Truthy(project_id)
       THEN /\ UsageError(ProjectUsageMsg)
            /\ UNCHANGED <<query, variables, auth_scheme>>
       ELSE /\ query' = QUERY_PROJECT
            /\ variables' = [projectId |-> project_id, first |-> args.first]
            /\ auth_scheme' = SchemeHint
            /\ Goto("request")
    /\ UNCHANGED <<configFile, fs, environ, args, config, env_data, token, header,
                   response, requests, envLoads, tokenReads, stdout, written>>

\* lines 468-473
BuildTeam ==
    /\ pc = "dispatch"
    /\ args.command = "team"
    /\ LET team_id == OrElse(args.id, Get(config, "teamId")) IN
       IF ~Truthy(team_id)
       THEN /\ UsageError(TeamUsageMsg)
            /\ UNCHANGED <<query, variables, auth_scheme>>
       ELSE /\ query' = QUERY_TEAM
            /\ variables' = [teamId |-> team_id, first |-> args.first]
            /\ auth_scheme' = SchemeHint
            /\ Goto("request")
    /\ UNCHANGED <<configFile, fs, environ, args, config, env_data, token, header,
                   response, requests, envLoads, tokenReads, stdout, written>>

\* lines 479-485
BuildCustom ==
    /\ pc = "dispatch"
    /\ args.command = "custom"
    /\ IF ~Exists(fs, args.query)
       THEN /\ Fail(QueryMissingMsg(args.query))
            /\ UNCHANGED <<query, variables, auth_scheme>>
       ELSE LET parsed == parse_variables(args.variables, fs) IN
            IF parsed.ok
            THEN /\ query' = Text(fs[args.query].data)
                 /\ variables' = parsed.value
                 /\ auth_scheme' = SchemeHint
                 /\ Goto("request")
            ELSE /\ Fail(parsed.error)
                 /\ UNCHANGED <<query, variables, auth_scheme>>
    /\ UNCHANGED <<configFile, fs, environ, args, config, env_data, token, header,
                   response, requests, envLoads, tokenReads, stdout, written>>

\* post_graphql, lines 247-267: one POST; the server answers with a decoded
\* response, a non-2xx status (HTTPError), or the connection fails (URLError),
\* or the body is no JSON (JSONDecodeError)
PostGraphql(Outcomes) ==
    /\ pc = "request"
    /\ header' = format_auth_header(token, auth_scheme)
    /\ \E o \in Outcomes :
          /\ requests' = requests + UrlopenCalls(o.kind)
          /\ IF o.kind = "response"
             THEN response' = o.response /\ Goto("response")
             ELSE UNCHANGED response /\ Fail(o.msg)
    /\ UNCHANGED <<configFile, fs, environ, args, config, env_data, token, query,
                   variables, auth_scheme, envLoads, tokenReads, stdout, written>>

\* raise_on_errors, lines 289-294
RaiseOnErrors ==
    /\ pc = "response"
    /\ IF HasErrors(response)
       THEN Fail(GraphQLErrorMsg(response.errors))
       ELSE Goto("checked")
    /\ UNCHANGED <<configFile, fs, environ, args, config, env_data, token, query,
                   variables, auth_scheme, header, response, requests, envLoads,
                   tokenReads, stdout, written>>

\* write_output, lines 278-286
WriteOutput(data, out_path) ==
    IF ~Truthy(out_path) \/ out_path = <<"-">>
    THEN /\ stdout' = Append(stdout, Dumps(data))
         /\ UNCHANGED written
    ELSE /\ written' = Append(written, [path |-> out_path, text |-> Dumps(data)])
         /\ UNCHANGED stdout

\* lines 444-455 of the issue command: disambiguation, then the output
FinishIssue ==
    /\ pc = "checked"
    /\ args.command = "issue"
    /\ IF ~Truthy(args.identifier)
       THEN WriteOutput(response, args.out) /\ Return
       ELSE IF NodesRaises(response)
       THEN Fail(NullDataMsg) /\ UNCHANGED <<stdout, written>>
       ELSE IF Len(NodesOf(response)) = 0
       THEN Fail(NotFoundMsg(args.identifier)) /\ UNCHANGED <<stdout, written>>
       ELSE IF Len(NodesOf(response)) > 1
       THEN Fail(AmbiguousMsg(NodesOf(response))) /\ UNCHANGED <<stdout, written>>
       ELSE WriteOutput(response, args.out) /\ Return
    /\ UNCHANGED <<configFile, fs, environ, args, config, env_data, token, query,
                   variables, auth_scheme, header, response, requests, envLoads,
                   tokenReads>>

\* lines 465-466, 476-477, 488-489
FinishOther ==
    /\ pc = "checked"
    /\ args.command \in {"project", "team", "custom"}
    /\ WriteOutput(response, args.out)
    /\ Return
    /\ UNCHANGED <<configFile, fs, environ, args, config, env_data, token, query,
                   variables, auth_scheme, header, response, requests, envLoads,
                   tokenReads>>

\* ----------------------------------------------------------------- inputs
T_arg  == <<"a","b","c">>
T_env  == <<"e","v">>
T_file == <<"f","l">>
ID1 == <<"i","1">>
PROJ1 == <<"p","1">>
TEAM1 == <<"t","1">>
WS1 == <<"w","1">>
WS2 == <<"w","2">>
P_my == <<"m",".","e">>
P_query == <<"q",".","g">>
P_vars == <<"v",".","j">>
OutFile == <<"o",".","j">>
Dash == <<"-">>
IdGood == <<"e","n","g","-","4","2">>
IdPadded == <<" ","A","1","-","0","7","\n">>
IdBad == <<"4","2","-","E">>

HttpOutcome == [kind |-> "http", msg |-> HttpErrorMsg("401", "denied")]
FaultOutcome == [kind |-> "fault", msg |-> "<urlopen error [Errno 111] Connection refused>"]
BadBodyOutcome == [kind |-> "badjson", msg |-> "Expecting value: line 1 column 1 (char 0)"]
Answer(r) == [kind |-> "response", response |-> r]

SeqsUpTo(S, n) == UNION {[1..k -> S] : k \in 0..n}

ErrorLists == SeqsUpTo({"bad token", NoField}, MaxErrors)
NodeLists == SeqsUpTo({"ENG-42", NoField}, MaxNodes)

\* what the server may answer to an issue query
IssueOutcomes ==
    {HttpOutcome, FaultOutcome, BadBodyOutcome}
      \cup {Answer(Response(<<>>, "nodes", n)) : n \in NodeLists}
      \cup {Answer(Response(<<>>, d, <<>>)) : d \in {"missing", "null", "noissues", "nonodes"}}
      \cup {Answer(Response(e, d, <<>>)) : e \in ErrorLists \ {<<>>}, d \in {"null"}}
      \cup {Answer(Response(e, "nodes", <<"ENG-42">>)) : e \in ErrorLists \ {<<>>}}

\* what it may answer to the other queries
OtherOutcomes ==
    {HttpOutcome, FaultOutcome, BadBodyOutcome}
      \cup {Answer(Response(e, d, <<>>)) : e \in ErrorLists, d \in {"other", "null"}}

OutcomesFor(command) == IF command = "issue" THEN IssueOutcomes ELSE OtherOutcomes

IssueArgs(tok, env, scheme, id, identifier, out) ==
    [command |-> "issue", token |-> tok, env |-> env, auth_scheme |-> scheme,
     id |-> id, identifier |-> identifier, details |-> FALSE, out |-> out]

ProjectArgs(tok, env, scheme, id, out) ==
    [command |-> "project", token |-> tok, env |-> env, auth_scheme |-> scheme,
     id |-> id, first |-> DefaultFirst, out |-> out]

TeamArgs(tok, env, scheme, id, out) ==
    [command |-> "team", token |-> tok, env |-> env, auth_scheme |-> scheme,
     id |-> id, first |-> DefaultFirst, out |-> out]

CustomArgs(tok, env, scheme, q, v, out) ==
    [command |-> "custom", token |-> tok, env |-> env, auth_scheme |-> scheme,
     query |-> q, variables |-> v, out |-> out]

\* the init options, all absent
InitArgs0 ==
    [command |-> "init", token |-> NoneV, env |-> NoneV, auth_scheme |-> NoneV,
     workspace |-> NoneV, team_id |-> NoneV, team_key |-> NoneV,
     project_id |-> NoneV, project_name |-> NoneV, board_url |-> NoneV,
     auth_mode |-> NoneV, mcp_server |-> NoneV]

\* file systems
TextFile(t) == [exists |-> TRUE, data |-> t]
TokenFile(v) == EnvFile([k \in {TokenKey} |-> v])
FsNone == EmptyMap
FsAll ==
    [p \in {P_env, P_query, P_vars} |->
        IF p = P_env THEN TokenFile(T_file)
        ELSE IF p = P_query THEN TextFile(<<"q">>)
        ELSE TextFile(J_empty)]

Run(a, e, f) == [args |-> a, environ |-> e, fs |-> f]

\* ---- the dispatcher specification's inputs
MainTokens == {NoneV, T_arg}
MainEnvirons == {NoneV, T_env}
MainSchemes == {NoneV, S_bearer}
MainOuts == {NoneV, Dash, OutFile}
MainFs == {FsNone, FsAll}

MainArgs ==
    {IssueArgs(t, NoneV, s, i, n, o) :
        t \in MainTokens, s \in MainSchemes, i \in {NoneV, <<>>, ID1},
        n \in {NoneV, IdGood, IdPadded, IdBad}, o \in MainOuts}
      \cup {ProjectArgs(t, NoneV, s, i, o) :
        t \in MainTokens, s \in MainSchemes, i \in {NoneV, PROJ1}, o \in MainOuts}
      \cup {TeamArgs(t, NoneV, s, i, o) :
        t \in MainTokens, s \in MainSchemes, i \in {NoneV, TEAM1}, o \in MainOuts}
      \cup {CustomArgs(t, NoneV, s, P_query, v, o) :
        t \in MainTokens, s \in MainSchemes,
        v \in {NoneV, J_empty, J_bad, <<"@">> \o P_vars}, o \in MainOuts}
      \cup {[InitArgs0 EXCEPT !.auth_mode = m] : m \in {NoneV, S_mcp, S_token}}

MainInputs == {Run(a, e, f) : a \in MainArgs, e \in MainEnvirons, f \in MainFs}

MainConfigs ==
    {MissingFile, MalformedFile,
     ObjectFile([k \in {"projectId", "teamId", "authScheme"} |->
                   IF k = "projectId" THEN PROJ1
                   ELSE IF k = "teamId" THEN TEAM1 ELSE S_raw])}

Init == InitWith(MainConfigs)

Next ==
    \/ Start(MainInputs)
    \/ LoadConfig
    \/ InitCommand
    \/ CheckAuthMode
    \/ ResolveCredential
    \/ BuildIssue
    \/ BuildProject
    \/ BuildTeam
    \/ BuildCustom
    \/ PostGraphql(OutcomesFor(args.command))
    \/ RaiseOnErrors
    \/ FinishIssue
    \/ FinishOther
    \/ ProcessEnds

Spec == Init /\ [][Next]_vars

\* ---- the credential specification: every combination of the three token
\* sources, and of the env files, for the project and team commands
FewOutcomes ==
    {HttpOutcome,
     Answer(Response(<<>>, "other", <<>>)),
     Answer(Response(<<"bad token">>, "null", <<>>))}

SourceValues(t) == {NoneV, <<>>, t}
EnvFileValues == {NoFile, EnvFile(EmptyMap), TokenFile(<<>>), TokenFile(T_file)}
TokenFs == [{P_my, P_local, P_env} -> EnvFileValues]

TokenArgs ==
    {ProjectArgs(t, e, NoneV, PROJ1, NoneV) : t \in SourceValues(T_arg), e \in {NoneV, P_my}}
      \cup {TeamArgs(t, e, NoneV, TEAM1, OutFile) : t \in SourceValues(T_arg), e \in {NoneV, P_my}}

TokenInputs == {Run(a, e, f) : a \in TokenArgs, e \in SourceValues(T_env), f \in TokenFs}

TokenConfigs ==
    {MissingFile,
     ObjectFile([k \in {"envFile"} |-> P_my]),
     ObjectFile([k \in {"authMode"} |-> S_mcp])}

NextFetch(Inputs, Outcomes) ==
    \/ Start(Inputs)
    \/ LoadConfig
    \/ CheckAuthMode
    \/ ResolveCredential
    \/ BuildProject
    \/ BuildTeam
    \/ PostGraphql(Outcomes)
    \/ RaiseOnErrors
    \/ FinishOther
    \/ ProcessEnds

SpecToken == InitWith(TokenConfigs) /\ [][NextFetch(TokenInputs, FewOutcomes)]_vars

\* ---- the header specification: tokens and scheme hints of every shape
HeaderTokens ==
    {T_arg,
     <<"B","e","a","r","e","r"," ","x">>,
     <<"b","e","a","r","e","r"," ","x">>,
     <<"B","E","A","R","E","R"," ","x">>,
     <<"b","e","a","r","e","r","x">>,
     <<"B","e","a","r","e","r">>,
     <<" ","B","e","a","r","e","r"," ","x">>,
     <<"a"," ","b">>}

HeaderSchemes ==
    {NoneV, <<>>, S_bearer, S_oauth, S_raw, S_token,
     <<"B","e","a","r","e","r">>,
     <<" ","B","E","A","R","E","R"," ">>,
     <<"O","A","u","t","h","\n">>,
     <<"R","A","W">>,
     <<"b","a","s","i","c">>,
     <<"b","e","a","r","e","r"," ","x">>,
     <<" ">>}

HeaderArgs ==
    {ProjectArgs(t, NoneV, s, PROJ1, NoneV) : t \in HeaderTokens, s \in HeaderSchemes}
      \cup {TeamArgs(t, NoneV, s, TEAM1, Dash) : t \in HeaderTokens, s \in HeaderSchemes}

HeaderInputs == {Run(a, NoneV, FsNone) : a \in HeaderArgs}

HeaderConfigs ==
    {MissingFile,
     ObjectFile([k \in {"authScheme"} |-> <<"B","e","a","r","e","r">>]),
     ObjectFile([k \in {"authScheme"} |-> S_raw])}

SpecHeader == InitWith(HeaderConfigs) /\ [][NextFetch(HeaderInputs, FewOutcomes)]_vars

\* ---- the init specification: any sequence of init runs, each with no option,
\* one option or every option supplied
InitAll ==
    [command |-> "init", token |-> NoneV, env |-> P_my, auth_scheme |-> S_raw,
     workspace |-> WS1, team_id |-> TEAM1, team_key |-> <<"E">>,
     project_id |-> PROJ1, project_name |-> <<"n">>, board_url |-> <<"u">>,
     auth_mode |-> S_mcp, mcp_server |-> <<"s">>]

InitOnlyArgs ==
    {InitArgs0, InitAll}
      \cup {[InitArgs0 EXCEPT !.workspace = v] : v \in {<<>>, WS1, WS2}}
      \cup {[InitArgs0 EXCEPT !.env = v] : v \in {<<>>, P_my, P_env}}
      \cup {[InitArgs0 EXCEPT !.team_id = v] : v \in {<<>>, TEAM1}}
      \cup {[InitArgs0 EXCEPT !.team_key = <<"E">>],
            [InitArgs0 EXCEPT !.project_id = PROJ1],
            [InitArgs0 EXCEPT !.project_name = <<"n">>],
            [InitArgs0 EXCEPT !.board_url = <<"u">>],
            [InitArgs0 EXCEPT !.auth_mode = S_mcp],
            [InitArgs0 EXCEPT !.auth_scheme = S_raw],
            [InitArgs0 EXCEPT !.mcp_server = <<"s">>]}

InitInputs == {Run(a, e, FsNone) : a \in InitOnlyArgs, e \in {T_env}}

InitConfigs ==
    {MissingFile, MalformedFile,
     ObjectFile([k \in {"extra", "envFile"} |-> IF k = "extra" THEN <<"x">> ELSE <<>>])}

NextInit ==
    \/ Start(InitInputs)
    \/ LoadConfig
    \/ InitCommand
    \/ ProcessEnds

SpecInit == InitWith(InitConfigs) /\ [][NextInit]_vars

\* ================================================================= claims
NonInit == {"issue", "project", "team", "custom"}
Present(v) == v # NoneV /\ Len(v) > 0
Exited == pc = "exit"
NothingWritten == stdout = <<>> /\ written = <<>>
FailedWith(msg) ==
    /\ pc = "exit"
    /\ exitCode # 0
    /\ failure.kind # "none"
    /\ failure.msg = msg

\* C1: in a project or team run that got to resolve its credential, the token
\* is the first non-empty one of --token, the environment variable
\* LINEAR_API_TOKEN and the env-file mapping's LINEAR_API_TOKEN entry, in that
\* order; when none of the three is non-empty the run fails with the
\* configuration error and sends nothing; no run goes on without a token.
C1_Sources == <<args.token, environ, Get(env_data, TokenKey)>>
C1_TokenPrecedence ==
    /\ tokenReads = 1 =>
          \/ \E i \in 1..3 :
                /\ Present(C1_Sources[i])
                /\ \A j \in 1..(i - 1) : ~Present(C1_Sources[j])
                /\ token = C1_Sources[i]
                /\ ~FailedWith(NoTokenMsg)
          \/ /\ \A i \in 1..3 : ~Present(C1_Sources[i])
             /\ FailedWith(NoTokenMsg)
             /\ failure.kind = "exception"
             /\ requests = 0
             /\ NothingWritten
    /\ pc \in {"dispatch", "request", "response", "checked"} =>
          tokenReads = 1 /\ Present(token)
    /\ requests > 0 => tokenReads = 1 /\ Present(token)

\* C1 witness: --token is the empty string, the variable is unset, and the run
\* succeeded with the env file's token
C1_Witness ==
    /\ Exited
    /\ exitCode = 0
    /\ args.token = <<>>
    /\ environ = NoneV
    /\ token = T_file
    /\ requests = 1

\* C2: the Authorization header of every request is "Bearer " + token when the
\* scheme hint, trimmed and lowercased, is bearer or oauth and the token does
\* not already start with "bearer " (case-insensitively), and the token itself
\* in every other case; with no hint it is always the token itself.
C2_Prefixes(tok, hint) ==
    /\ hint # NoneV
    /\ Lower(Strip(hint)) \in {S_bearer, S_oauth}
    /\ ~(Len(tok) >= 7 /\ Lower(SubSeq(tok, 1, 7)) = BearerSp)
C2_HeaderValue ==
    requests > 0 =>
       /\ C2_Prefixes(token, auth_scheme) => header = BearerPrefix \o token
       /\ ~C2_Prefixes(token, auth_scheme) => header = token
       /\ ~Present(auth_scheme) => header = token

\* C2 witness: the hint " BEARER " put the prefix on the token abc
C2_Witness ==
    /\ requests = 1
    /\ auth_scheme = <<" ","B","E","A","R","E","R"," ">>
    /\ token = T_arg
    /\ header = <<"B","e","a","r","e","r"," ","a","b","c">>

\* C3: while the stored config has authMode mcp, a run of issue, project, team
\* or custom loads no env file, resolves no token and sends no request, and it
\* ends with the MCP error, whatever tokens are at hand.
C3_StoredMcp == configFile.state = "object" /\ Get(configFile.obj, "authMode") = S_mcp
C3_McpShortCircuit ==
    (args.command \in NonInit /\ C3_StoredMcp) =>
       /\ envLoads = 0
       /\ tokenReads = 0
       /\ requests = 0
       /\ NothingWritten
       /\ pc \in {"main", "loaded", "exit"}
       /\ Exited => FailedWith(McpMsg) /\ failure.kind = "exception"

\* C3 witness: an issue run with --token, the variable and an env file all
\* holding a token was refused
C3_Witness ==
    /\ Exited
    /\ args.command = "issue"
    /\ args.token = T_arg
    /\ environ = T_env
    /\ Exists(fs, P_env)
    /\ FailedWith(McpMsg)

\* C4: an issue run given neither --id nor --identifier, or given both, is
\* rejected: it sends no request and does not succeed; given only --id it
\* sends the id-keyed query, given only --identifier the identifier-keyed one.
C4_Both == Present(args.id) /\ Present(args.identifier)
C4_Neither == ~Present(args.id) /\ ~Present(args.identifier)
C4_ExactlyOne ==
    args.command = "issue" =>
       /\ (C4_Both \/ C4_Neither) => requests = 0 /\ exitCode # 0
       /\ (requests > 0 /\ Present(args.id) /\ ~Present(args.identifier)) =>
             query = QUERY_ISSUE_BY_ID
       /\ (requests > 0 /\ Present(args.identifier) /\ ~Present(args.id)) =>
             query = QUERY_ISSUE_BY_IDENTIFIER

\* C5: after an answer without upstream errors, an identifier lookup ends by
\* the number of data.issues.nodes (a missing level being no nodes): none is
\* the not-found error, several the ambiguity error listing them, one is
\* success with the output written; a lookup by direct id is never
\* disambiguated, so it succeeds.
C5_Answered ==
    /\ Exited
    /\ args.command = "issue"
    /\ requests = 1
    /\ response # NoResponse
    /\ response.errors = <<>>
    /\ response.data # "null"
C5_Count == IF response.data = "nodes" THEN Len(response.nodes) ELSE 0
C5_Disambiguation ==
    C5_Answered =>
       /\ query = QUERY_ISSUE_BY_IDENTIFIER =>
             /\ C5_Count = 0 => FailedWith(NotFoundMsg(args.identifier))
             /\ C5_Count > 1 =>
                   /\ exitCode # 0
                   /\ failure.msg = AmbiguousMsg(response.nodes)
             /\ C5_Count = 1 => exitCode = 0 /\ ~NothingWritten
       /\ query = QUERY_ISSUE_BY_ID => exitCode = 0 /\ ~NothingWritten

\* C6: an init run that saves the config sets exactly the keys whose option
\* was given non-empty to the given values, and leaves every other stored key
\* (of the ten or not) with its value and adds no key; an option that is empty
\* or absent neither changes nor removes a stored value; a run whose options
\* the stored config already reflects (a repeated init) changes nothing; a run
\* that fails to save leaves the file as it was.
C6_Option(a, k) ==
    CASE k = "workspace"   -> a.workspace
      [] k = "teamId"      -> a.team_id
      [] k = "teamKey"     -> a.team_key
      [] k = "projectId"   -> a.project_id
      [] k = "projectName" -> a.project_name
      [] k = "boardUrl"    -> a.board_url
      [] k = "envFile"     -> a.env
      [] k = "authMode"    -> a.auth_mode
      [] k = "authScheme"  -> a.auth_scheme
      [] k = "mcpServer"   -> a.mcp_server
      [] OTHER             -> NoneV
C6_Stored(file) == IF file.state = "object" THEN file.obj ELSE EmptyMap
C6_Reflects(old, a) ==
    \A k \in ConfigKeys :
       Present(C6_Option(a, k)) => k \in DOMAIN old /\ old[k] = C6_Option(a, k)
C6_InitStep ==
    LET old == C6_Stored(configFile)
        new == C6_Stored(configFile')
    IN (pc = "loaded" /\ args.command = "init" /\ pc' = "exit") =>
          IF exitCode' = 0
          THEN /\ configFile'.state = "object"
               /\ \A k \in (DOMAIN old) \cup (DOMAIN new) \cup ConfigKeys :
                     IF Present(C6_Option(args, k))
                     THEN k \in DOMAIN new /\ new[k] = C6_Option(args, k)
                     ELSE /\ k \in DOMAIN new <=> k \in DOMAIN old
                          /\ k \in DOMAIN old => new[k] = old[k]
               /\ C6_Reflects(old, args) => new = old
          ELSE configFile' = configFile
C6_InitMerge == [][C6_InitStep]_vars

\* C6 witness: init --workspace w2 saved w2 over a stored workspace and kept
\* the stored teamId, the stored empty envFile and the key that is not init's
C6_Witness ==
    /\ Exited
    /\ exitCode = 0
    /\ args.command = "init"
    /\ args.workspace = WS2
    /\ args.team_id = NoneV
    /\ DOMAIN configFile.obj = {"extra", "envFile", "workspace", "teamId"}
    /\ configFile.obj["workspace"] = WS2
    /\ configFile.obj["teamId"] = TEAM1
    /\ configFile.obj["envFile"] = <<>>

\* C7: a run never sends more than one request; an init run sends none and
\* resolves no credential, whatever the stored authMode; a run of issue,
\* project, team or custom that exits successfully has sent exactly one.
C7_RequestCount ==
    /\ requests <= 1
    /\ args.command = "init" => requests = 0 /\ tokenReads = 0 /\ envLoads = 0
    /\ (Exited /\ exitCode = 0 /\ args.command \in NonInit) => requests = 1

\* C7 witness: the server answered 401 and the run ended with that one request
C7_Witness ==
    /\ Exited
    /\ args.command = "custom"
    /\ failure.msg = "Request failed: HTTP 401 denied"
    /\ requests = 1

\* C8: in an issue run given --identifier, an identifier that does not match
\* letter, letters/digits/underscores, hyphen, digits (after trimming) is
\* rejected with the validation error and no request is sent; one that
\* matches is sent as the uppercased team key and the integer of the digits.
C8_Invalid == {IdBad}
C8_Expected(identifier) ==
    IF identifier = IdGood
    THEN [teamKey |-> <<"E","N","G">>, number |-> 42, includeDetails |-> FALSE]
    ELSE [teamKey |-> <<"A","1">>, number |-> 7, includeDetails |-> FALSE]
C8_IdentifierChecked ==
    (args.command = "issue" /\ Present(args.identifier)) =>
       /\ args.identifier \in C8_Invalid =>
             /\ requests = 0
             /\ (Exited /\ tokenReads = 1 /\ Present(token)) =>
                   /\ failure.kind = "exception"
                   /\ failure.msg = "Invalid issue identifier '42-E'. Expected format TEAM-123."
       /\ (args.identifier \notin C8_Invalid /\ requests > 0) =>
             variables = C8_Expected(args.identifier)

\* C9: every failure is written to the error stream as "Error: " followed by
\* its message and the exit status is not zero; a run that did not fail exits
\* with status zero.
C9_UniformFailure ==
    Exited =>
       /\ failure.kind # "none" => stderr = "Error: " \o failure.msg /\ exitCode # 0
       /\ failure.kind = "none" => exitCode = 0

\* C9 as amended: a failure raised as an exception is written as "Error: " and
\* its message with exit status 1; a missing required option combination
\* (issue without --id and --identifier, project or team without an id) is the
\* argument parser's usage error: the usage text and "linear_fetch.py: error: "
\* with the message, exit status 2, and no "Error: " prefix; a run that did
\* not fail exits with status 0 and has written nothing to the error stream.
C9_UsageMsgs == {IssueUsageMsg, ProjectUsageMsg, TeamUsageMsg}
C9_FailureSurface ==
    Exited =>
       /\ failure.kind \in {"none", "exception", "usage"}
       /\ failure.kind = "usage" <=> failure.msg \in C9_UsageMsgs
       /\ failure.kind = "exception" =>
             stderr = "Error: " \o failure.msg /\ exitCode = 1
       /\ failure.kind = "usage" =>
             /\ stderr = "usage: linear_fetch.py ...\nlinear_fetch.py: error: "
                           \o failure.msg \o "\n"
             /\ exitCode = 2
       /\ failure.kind = "none" => exitCode = 0 /\ stderr = ""
       /\ exitCode = 0 => failure.kind = "none" /\ ~NothingWritten

\* C9 witness: a malformed identifier surfaced as an "Error: " line, status 1
C9_Witness ==
    /\ Exited
    /\ args.command = "issue"
    /\ args.identifier = IdBad
    /\ stderr = "Error: Invalid issue identifier '42-E'. Expected format TEAM-123."
    /\ exitCode = 1

\* C10: a run of issue, project, team or custom writes its output only once it
\* has exited successfully after its one response passed the upstream-error
\* check and, when an identifier was given, the one-node check; an answer with
\* a non-empty errors list fails with the messages joined by "; " ("Unknown
\* error" for an entry without one); a failing run has written nothing to
\* standard output or to the --out file.
RECURSIVE C10_Joined(_)
C10_Joined(errors) ==
    LET m == IF errors[1] = NoField THEN "Unknown error" ELSE errors[1]
    IN IF Len(errors) = 1 THEN m ELSE m \o "; " \o C10_Joined(Tail(errors))
C10_OutputLast ==
    args.command \in NonInit =>
       /\ ~NothingWritten =>
             /\ Exited
             /\ exitCode = 0
             /\ requests = 1
             /\ response # NoResponse
             /\ response.errors = <<>>
             /\ Len(stdout) + Len(written) = 1
             /\ (args.command = "issue" /\ Present(args.identifier)) =>
                   response.data = "nodes" /\ Len(response.nodes) = 1
       /\ (pc \in {"checked", "exit"} /\ response # NoResponse
             /\ response.errors # <<>>) =>
             /\ Exited
             /\ exitCode = 1
             /\ failure.msg = "GraphQL error: " \o C10_Joined(response.errors)
       /\ (Exited /\ exitCode # 0) => NothingWritten

\* C10 witness: two upstream errors, the second without a message
C10_Witness ==
    /\ Exited
    /\ response.errors = <<"bad token", NoField>>
    /\ failure.msg = "GraphQL error: bad token; Unknown error"
    /\ stderr = "Error: GraphQL error: bad token; Unknown error"
    /\ NothingWritten

====
